---- MODULE Spec2Model ----
(***************************************************************************)
(* A model of the particle filter of src/src/ParticleFilter2.py: the       *)
(* ParticleFilter class (construction, predict, update and the five        *)
(* resamplers) with the helpers it calls.                                  *)
(*                                                                         *)
(* Numbers.  Weights, cumulative sums and uniform draws are exact          *)
(* rationals <<n, d>> in lowest terms with d > 0.  Headings are integers   *)
(* in units of a quarter turn (PiUnits units make pi), positions integers  *)
(* on a unit grid; cos and sin are exact on that lattice.  Indices are     *)
(* 0-based as in the code; a sequence s of the model holds element i of    *)
(* the array at s[i + 1].                                                  *)
(***************************************************************************)
EXTENDS Integers, Sequences, FiniteSets, TLC

VARIABLES pc, N, particles, weights, raised, last, calls, audit

vars == <<pc, N, particles, weights, raised, last, calls, audit>>

(***************************************************************************)
(* Bounds of the model.                                                    *)
(***************************************************************************)
\* Largest particle count a filter is constructed with.
MaxN == 3
\* Calls made on one filter instance in the lifecycle specification.
MaxCalls == 3
\* Weight vectors drawn as inputs have entries i / WDen.
WDen == 6
\* Uniform draws rand() are the values i / UDen, 0 <= i < UDen.
UDen == 4

(***************************************************************************)
(* Exact rational arithmetic.                                              *)
(***************************************************************************)
Abs(x) == IF x < 0 THEN -x ELSE x

RECURSIVE GCD(_, _)
GCD(a, b) == IF b = 0 THEN a ELSE GCD(b, a % b)

Rat(n, d) ==
    LET g == GCD(Abs(n), Abs(d))
        s == IF d < 0 THEN -1 ELSE 1
    IN  <<(s * n) \div g, (s * d) \div g>>

Zero == <<0, 1>>
One == <<1, 1>>

\* sums and products reduce before they multiply, so that an intermediate
\* value is never larger than the operands and the result need
RAdd(a, b) ==
    LET g == GCD(a[2], b[2])
    IN  Rat(a[1] * (b[2] \div g) + b[1] * (a[2] \div g), (a[2] \div g) * b[2])
RNeg(a) == <<-a[1], a[2]>>
RSub(a, b) == RAdd(a, RNeg(b))
RMul(a, b) ==
    LET g1 == GCD(Abs(a[1]), b[2])
        g2 == GCD(Abs(b[1]), a[2])
    IN  Rat((a[1] \div g1) * (b[1] \div g2), (a[2] \div g2) * (b[2] \div g1))
RDiv(a, b) == RMul(a, IF b[1] < 0 THEN <<-b[2], -b[1]>> ELSE <<b[2], b[1]>>)
RLt(a, b) == a[1] * b[2] < b[1] * a[2]
RLe(a, b) == a[1] * b[2] <= b[1] * a[2]

RECURSIVE RSum(_)
RSum(s) == IF s = <<>> THEN Zero ELSE RAdd(RSum(SubSeq(s, 1, Len(s) - 1)), s[Len(s)])

(***************************************************************************)
(* numpy helpers.                                                          *)
(***************************************************************************)
\* a cumulative sum that starts at zero: entry i is the sum before element i
CumSumExclusive(s) == [i \in 1..Len(s) |-> RSum(SubSeq(s, 1, i - 1))]

\* np.cumsum
CumSum(s) == [i \in 1..Len(s) |-> RSum(SubSeq(s, 1, i))]

\* a[-1] = v on a non-empty array
SetLast(a, v) == [a EXCEPT ![Len(a)] = v]

NonDecreasing(a) == \A i \in 1..(Len(a) - 1) : RLe(a[i], a[i + 1])

\* np.searchsorted(a, vs), side 'left', for the array vs of keys: on a sorted
\* array a, for each key v the number of entries below v, that is the first
\* index whose entry is >= v.  numpy leaves the result on an unsorted array
\* unspecified; its binary search still returns indexes in 0..len(a), and
\* len(a) only for a key above the last entry.
searchsorted(a, vs) ==
    IF NonDecreasing(a)
    THEN {[i \in 1..Len(vs) |-> Cardinality({m \in 1..Len(a) : RLt(a[m], vs[i])})]}
    ELSE {idx \in [1..Len(vs) -> 0..Len(a)] :
            \A i \in 1..Len(vs) : idx[i] = Len(a) => RLt(a[Len(a)], vs[i])}

\* the assignment without the indexing: arr[:] = arr
TakeInPlace(arr, indexes) == [i \in 1..Len(indexes) |-> arr[i]]

\* arr[indexes]: a fresh array holding arr[indexes[i]] at i
Take(arr, indexes) == [i \in 1..Len(indexes) |-> arr[indexes[i] + 1]]

\* weights.fill(1.0 / n)
Fill(n) == [i \in 1..n |-> Rat(1, n)]

\* rand(): the uniform draws of [0, 1) the model enumerates
UDraws == {Rat(i, UDen) : i \in 0..(UDen - 1)}

(***************************************************************************)
(* The record of the last call: what it was given, what it computed and    *)
(* the state it started from.  It is kept in full where audit is set (the  *)
(* specification of the resamplers as functions); the lifecycle             *)
(* specification keeps the operation's name and what update was given.     *)
(***************************************************************************)
NoLast ==
    [op |-> "none", indexes |-> <<>>, us |-> <<>>, k |-> 0, jmax |-> 0,
     copies |-> <<>>, divzero |-> FALSE, residual |-> <<>>,
     oldP |-> <<>>, oldW |-> <<>>, z |-> <<>>, factors |-> <<>>]

Returned(rec) ==
    /\ last' = IF audit \/ rec.op = "update" THEN rec ELSE [NoLast EXCEPT !.op = rec.op]
    /\ calls' = calls + 1
    /\ audit' = audit

\* an uncaught exception ends the run (mainFunction catches nothing)
Raise(e, rec) ==
    /\ pc' = "raised"
    /\ raised' = e
    /\ Returned(rec)

(***************************************************************************)
(* Angles.                                                                 *)
(***************************************************************************)
\* np.pi in the model's angle unit, a quarter turn
PiUnits == 2

\* wrapToPi with the upper end left open: d >= np.pi in place of d > np.pi
wrapToPiClosedBelow(d) ==
    LET m == d % (2 * PiUnits)
    IN  IF m >= PiUnits THEN m - 2 * PiUnits ELSE m

wrapToPi(d) ==
    LET m == d % (2 * PiUnits)
    IN  IF m > PiUnits THEN m - 2 * PiUnits ELSE m

\* wrapToPiN applies the same two lines to every element
wrapToPiN(d) ==
    [i \in 1..Len(d) |->
        LET m == d[i] % (2 * PiUnits)
        IN  IF m > PiUnits THEN m - 2 * PiUnits ELSE m]

\* np.cos and np.sin of a whole number of quarter turns
Cos(h) == CASE h % 4 = 0 -> 1 [] h % 4 = 2 -> -1 [] OTHER -> 0
Sin(h) == CASE h % 4 = 1 -> 1 [] h % 4 = 3 -> -1 [] OTHER -> 0

\* np.arctan2(dy, dx) to the nearest quarter turn
ArcTan2(dy, dx) ==
    IF Abs(dy) > Abs(dx) THEN (IF dy > 0 THEN 1 ELSE -1)
    ELSE IF dx >= 0 THEN 0
    ELSE IF dy >= 0 THEN 2 ELSE -2

\* np.linalg.norm of a grid vector, to the grid (the integer square root)
Norm(dx, dy) == CHOOSE r \in 0..(Abs(dx) + Abs(dy)) :
                    r * r <= dx * dx + dy * dy /\ dx * dx + dy * dy < (r + 1) * (r + 1)

(***************************************************************************)
(* Construction.                                                           *)
(***************************************************************************)
\* the values randn(N) * std takes in the model, per particle (x, y, theta)
GaussNoise == {<<0, 0, 0>>, <<1, 0, -2>>}

\* the initial poses handed to the constructor
Robots == {<<0, 0, 0>>, <<0, 1, 3>>}

create_gaussian_particles(mean, noise, n) ==
    [i \in 1..n |-> <<mean[1] + noise[i][1], mean[2] + noise[i][2],
                      wrapToPi(mean[3] + noise[i][3])>>]

\* the particle counts handed to the constructor
FilterSizes == {-1, 0, 1, 2}

\* ParticleFilter(N = n, ...): np.ones(n) refuses a negative n; n = 0 gives
\* empty arrays, and np.ones(0) / 0 divides no element
Construct ==
    /\ pc = "new"
    /\ \E n \in FilterSizes, robot \in Robots :
         IF n < 0
         THEN /\ pc' = "raised"
              /\ raised' = "ValueError"
              /\ UNCHANGED <<N, particles, weights, last, calls, audit>>
         ELSE \E noise \in [1..n -> GaussNoise] :
                /\ pc' = "ready"
                /\ N' = n
                /\ weights' = Fill(n)
                /\ particles' = create_gaussian_particles(robot, noise, n)
                /\ UNCHANGED <<raised, last, calls, audit>>

(***************************************************************************)
(* predict.                                                                *)
(***************************************************************************)
\* the control inputs u = (forward speed, turn rate), dt being the unit
Controls == {<<1, 0>>, <<1, 5>>}

\* the values randn(N) * std takes in the model, per particle: the two
\* speed channels and the turn-rate channel
PredictNoise == {<<0, 0, 0>>, <<1, 0, 1>>}

predictParticles(ps, u, noise) ==
    [i \in 1..Len(ps) |->
        <<ps[i][1] + Cos(ps[i][3]) * (u[1] + noise[i][1]),
          ps[i][2] + Sin(ps[i][3]) * (u[1] + noise[i][2]),
          wrapToPi(ps[i][3] + (u[2] + noise[i][3]))>>]

predict ==
    /\ pc = "ready"
    /\ calls < MaxCalls
    /\ \E u \in Controls, noise \in [1..N -> PredictNoise] :
         /\ particles' = predictParticles(particles, u, noise)
         /\ Returned([NoLast EXCEPT !.op = "predict"])
         /\ UNCHANGED <<pc, N, weights, raised>>

(***************************************************************************)
(* update.                                                                 *)
(***************************************************************************)
\* the landmarks and the measurement noise R handed to the constructor
Landmarks == << <<2, 0>>, <<0, 2>> >>
RNoise == <<1, 0>>

\* 2 * np.pi as a number, to the nearest integer
TwoPiValue == 6
\* the floor 1.e-300 added to every weight is the rational 1 / FloorDen:
\* the model's integers are machine integers
FloorDen == 64

\* np.exp on the rationals: the positive, non-decreasing step function
\* 2 ^ floor(t)
Exp(t) ==
    LET e == t[1] \div t[2]
    IN  IF e >= 0 THEN <<2 ^ e, 1>> ELSE <<1, 2 ^ (-e)>>

\* normpdf(x, mu, std) for a std that is not zero: cov = diag(1, 1) * std,
\* det(cov) ** (1/2) = |std|, inv(cov) = diag(1, 1) / std, len(mu) = 2
normpdf(x, mu, std) ==
    LET q == (x[1] - mu[1]) * (x[1] - mu[1]) + (x[2] - mu[2]) * (x[2] - mu[2])
        part1 == Rat(1, TwoPiValue * Abs(std))
        part2 == Rat(-q, 2 * std)
    IN  RMul(part1, Exp(part2))

\* the (distance, angle) row of particle p for a landmark
Predicted(p, landmark) ==
    <<Norm(p[1] - landmark[1], p[2] - landmark[2]),
      wrapToPi(ArcTan2(p[2] - landmark[2], p[1] - landmark[1]) - p[3])>>

\* the argument update hands to normpdf as std for landmark i (0-based):
\* z[0, i]
StdOf(z, i) == z[i + 1]

\* the list multiplied into the weights for landmark i (0-based)
Factors(ps, z, i) ==
    [j \in 1..Len(ps) |-> normpdf(Predicted(ps[j], Landmarks[i + 1]), RNoise, StdOf(z, i))]

\* the loop of update over the landmarks from landmark i on: the weights,
\* the factors applied, and whether np.linalg.inv refused a singular cov (a
\* std of zero; there is no call of normpdf without particles)
RECURSIVE UpdateLoop(_, _, _, _, _)
UpdateLoop(w, ps, z, i, factors) ==
    IF i >= Len(Landmarks)
    THEN [weights |-> w, factors |-> factors, err |-> FALSE]
    ELSE IF Len(ps) > 0 /\ StdOf(z, i) = 0
    THEN [weights |-> w, factors |-> factors, err |-> TRUE]
    ELSE LET f == Factors(ps, z, i)
         IN  UpdateLoop([j \in 1..Len(w) |-> RMul(w[j], f[j])], ps, z, i + 1,
                        Append(factors, f))

\* self.weights += 1.e-300
AddFloor(w) == [j \in 1..Len(w) |-> RAdd(w[j], Rat(1, FloorDen))]

\* self.weights /= sum(self.weights)
Normalize(w) == [j \in 1..Len(w) |-> RDiv(w[j], RSum(w))]

\* the observation vectors z = (range, bearing, range, bearing)
Observations ==
    {<<1, 1, 2, 1>>, <<1, 2, 2, 1>>, <<1, 1, 1, -1>>, <<2, -1, 1, 0>>,
     <<1, 0, 2, 1>>, <<0, 1, 2, 1>>}

update ==
    /\ pc = "ready"
    /\ calls < MaxCalls
    /\ \E z \in Observations :
         LET r == UpdateLoop(weights, particles, z, 0, <<>>)
             rec == [NoLast EXCEPT !.op = "update", !.z = z, !.factors = r.factors,
                       !.oldP = particles, !.oldW = weights]
         IN  IF r.err
             THEN /\ Raise("LinAlgError", rec)
                  /\ weights' = r.weights
                  /\ UNCHANGED <<N, particles>>
             ELSE /\ weights' = Normalize(AddFloor(r.weights))
                  /\ Returned(rec)
                  /\ UNCHANGED <<pc, N, particles, raised>>

(***************************************************************************)
(* The resamplers.                                                         *)
(***************************************************************************)
\* the last three lines of every resampler but multinomial_resample, given
\* the selected indexes
ApplyIndexes(rec) ==
    IF Len(weights) = 0
    THEN \* 1.0 / len(self.weights) divides by zero
         /\ Raise("ZeroDivisionError", rec)
         /\ UNCHANGED <<N, particles, weights>>
    ELSE /\ particles' = Take(particles, rec.indexes)
         /\ weights' = Fill(Len(weights))
         /\ Returned(rec)
         /\ UNCHANGED <<pc, N, raised>>

\* the indexes multinomial_resample may select for the draws us
MultinomialIndexes(w, us) == searchsorted(SetLast(CumSum(w), One), us)

multinomial_resample ==
    /\ pc = "ready"
    /\ calls < MaxCalls
    /\ IF Len(weights) = 0
       THEN \* cumulative_sum[-1] = 1. on an empty array
            /\ Raise("IndexError", [NoLast EXCEPT !.op = "multinomial"])
            /\ UNCHANGED <<N, particles, weights>>
       ELSE \E us \in [1..Len(weights) -> UDraws] :
              \E idx \in MultinomialIndexes(weights, us) :
                 /\ particles' = Take(particles, idx)
                 /\ weights' = Fill(N)
                 /\ Returned([NoLast EXCEPT !.op = "multinomial", !.indexes = idx,
                                !.us = us, !.oldP = particles, !.oldW = weights])
                 /\ UNCHANGED <<pc, N, raised>>

\* the callers' index lists: N entries, each the index of a particle
resample_from_index ==
    /\ pc = "ready"
    /\ calls < MaxCalls
    /\ \E indexes \in [1..N -> 0..(N - 1)] :
          ApplyIndexes([NoLast EXCEPT !.op = "from_index", !.indexes = indexes,
                          !.oldP = particles, !.oldW = weights])

\* .astype(int): truncation towards zero
AsInt(a) == IF a[1] >= 0 THEN a[1] \div a[2] ELSE -((-a[1]) \div a[2])

\* the copy counts rounded to the nearest integer in place of truncated
NumCopiesRounded(w, n) == [i \in 1..Len(w) |-> AsInt(RAdd(RMul(<<n, 1>>, w[i]), <<1, 2>>))]

\* num_copies = (N*np.asarray(self.weights)).astype(int)
NumCopies(w, n) == [i \in 1..Len(w) |-> AsInt(RMul(<<n, 1>>, w[i]))]

\* the loop over range(N) that writes num_copies[i] times the index i
RECURSIVE CopyLoop(_, _)
CopyLoop(num_copies, n) ==
    IF n = 0 THEN <<>>
    ELSE CopyLoop(num_copies, n - 1) \o [c \in 1..num_copies[n] |-> n - 1]

\* residual = self.weights - num_copies
Residual(w, num_copies) == [i \in 1..Len(w) |-> RSub(w[i], <<num_copies[i], 1>>)]

\* the indexes residual_resample may write to indexes[k:N] for the draws us.
\* residual /= sum(residual) with a zero sum gives inf and nan entries
\* (numpy warns and goes on); searchsorted on them is as on an unsorted array.
ResidualFill(residual, us) ==
    IF RSum(residual) = Zero
    THEN [1..Len(us) -> 0..(Len(residual) - 1)]
    ELSE searchsorted(SetLast(CumSum(Normalize(residual)), One), us)

residual_resample ==
    /\ pc = "ready"
    /\ calls < MaxCalls
    /\ LET num_copies == NumCopies(weights, N)
           head == CopyLoop(num_copies, N)
           k == Len(head)
           residual == Residual(weights, num_copies)
           rec == [NoLast EXCEPT !.op = "residual", !.k = k, !.copies = num_copies,
                     !.divzero = (RSum(residual) = Zero),
                     !.residual = IF RSum(residual) = Zero THEN residual
                                  ELSE Normalize(residual),
                     !.oldP = particles, !.oldW = weights]
       IN  IF k > N \/ N = 0
           THEN \* indexes[k] = i past the end of indexes, or
                \* cumulative_sum[-1] = 1. on an empty array
                /\ Raise("IndexError", rec)
                /\ UNCHANGED <<N, particles, weights>>
           ELSE \E us \in [1..(N - k) -> UDraws] :
                  \E fill \in ResidualFill(residual, us) :
                     ApplyIndexes([rec EXCEPT !.indexes = head \o fill, !.us = us])

\* the two-pointer loop comparing with <= in place of <
RECURSIVE WalkLe(_, _, _, _, _)
WalkLe(positions, cumulative_sum, i, j, indexes) ==
    IF ~(i < Len(positions))
    THEN [indexes |-> indexes, jmax |-> j, err |-> FALSE]
    ELSE IF j >= Len(cumulative_sum)
    THEN [indexes |-> indexes, jmax |-> j, err |-> TRUE]
    ELSE IF RLe(positions[i + 1], cumulative_sum[j + 1])
    THEN WalkLe(positions, cumulative_sum, i + 1, j, Append(indexes, j))
    ELSE WalkLe(positions, cumulative_sum, i, j + 1, indexes)

\* the two-pointer loop of stratified_resample and systematic_resample from
\* the loop state (i, j): the indexes written, the last j read, and whether
\* cumulative_sum[j] was read past the end (IndexError)
RECURSIVE Walk(_, _, _, _, _)
Walk(positions, cumulative_sum, i, j, indexes) ==
    IF ~(i < Len(positions))
    THEN [indexes |-> indexes, jmax |-> j, err |-> FALSE]
    ELSE IF j >= Len(cumulative_sum)
    THEN [indexes |-> indexes, jmax |-> j, err |-> TRUE]
    ELSE IF RLt(positions[i + 1], cumulative_sum[j + 1])
    THEN Walk(positions, cumulative_sum, i + 1, j, Append(indexes, j))
    ELSE Walk(positions, cumulative_sum, i, j + 1, indexes)

\* positions = (rand(N) + range(N)) / N
StratifiedPositions(us) ==
    [i \in 1..Len(us) |-> RDiv(RAdd(us[i], <<i - 1, 1>>), <<Len(us), 1>>)]

\* positions = (np.arange(N) + rand()) / N
SystematicPositions(n, u) ==
    [i \in 1..n |-> RDiv(RAdd(<<i - 1, 1>>, u), <<n, 1>>)]

WalkResample(op, positions) ==
    LET r == Walk(positions, CumSum(weights), 0, 0, <<>>)
        rec == [NoLast EXCEPT !.op = op, !.indexes = r.indexes,
                  !.jmax = r.jmax, !.oldP = particles, !.oldW = weights]
    IN  IF r.err
        THEN /\ Raise("IndexError", rec)
             /\ UNCHANGED <<N, particles, weights>>
        ELSE ApplyIndexes(rec)

stratified_resample ==
    /\ pc = "ready"
    /\ calls < MaxCalls
    /\ \E us \in [1..N -> UDraws] :
          WalkResample("stratified", StratifiedPositions(us))

systematic_resample ==
    /\ pc = "ready"
    /\ calls < MaxCalls
    /\ \E u \in UDraws :
          WalkResample("systematic", SystematicPositions(N, u))

(***************************************************************************)
(* The lifecycle of a filter: construction, then calls in any order, until *)
(* one raises.                                                             *)
(***************************************************************************)
Init ==
    /\ pc = "new"
    /\ N = 0
    /\ particles = <<>>
    /\ weights = <<>>
    /\ raised = "none"
    /\ last = NoLast
    /\ calls = 0
    /\ audit = FALSE

Next ==
    \/ Construct
    \/ predict
    \/ update
    \/ multinomial_resample
    \/ resample_from_index
    \/ residual_resample
    \/ stratified_resample
    \/ systematic_resample

Spec == Init /\ [][Next]_vars

(***************************************************************************)
(* The resamplers as functions of the weight vector: a filter whose        *)
(* weights are any vector of non-negative entries i / WDen summing to 1,   *)
(* on which one resampler is called.                                       *)
(***************************************************************************)
WeightVectors(n) ==
    {[i \in 1..n |-> Rat(x[i], WDen)] :
        x \in {y \in [1..n -> 0..WDen] : RSum([i \in 1..n |-> <<y[i], 1>>]) = <<WDen, 1>>}}

InitResample ==
    /\ pc = "ready"
    /\ N \in 1..MaxN
    /\ particles = [i \in 1..N |-> <<i, -i, 0>>]
    /\ weights \in WeightVectors(N)
    /\ raised = "none"
    /\ last = NoLast
    /\ calls = MaxCalls - 1
    /\ audit = TRUE

NextResample ==
    \/ multinomial_resample
    \/ resample_from_index
    \/ residual_resample
    \/ stratified_resample
    \/ systematic_resample

SpecResample == InitResample /\ [][NextResample]_vars

(***************************************************************************)
(* The claims.                                                             *)
(***************************************************************************)
ResampleOps == {"multinomial", "from_index", "residual", "stratified", "systematic"}
WalkOps == {"stratified", "systematic"}

\* C1: a filter constructed with N >= 1 particles has, after construction and
\* after any sequence of predict, update and resample calls, a weight vector
\* of exactly N entries that sum to 1.
WeightsSumToOne ==
    (pc # "new" /\ N >= 1) => (Len(weights) = N /\ RSum(weights) = One)

\* C1, for the calls that return: while no call has raised, the weight vector
\* of a filter of N >= 1 particles has N entries that sum to 1.
WeightsSumToOneWhileReady ==
    (pc = "ready" /\ N >= 1) => (Len(weights) = N /\ RSum(weights) = One)

\* C2: the heading of every particle lies in (-pi, pi] in every reachable
\* state, whatever the control input and turn rate.
HeadingsWrapped ==
    \A i \in 1..Len(particles) :
        -PiUnits < particles[i][3] /\ particles[i][3] <= PiUnits

\* C2 witness: predict has moved a heading onto pi, the closed end.
HeadingAtPiAfterPredict ==
    /\ last.op = "predict"
    /\ \E i \in 1..Len(particles) : particles[i][3] = PiUnits

\* C3: after a call of any of the five resamplers every weight is exactly
\* 1 / N, there are still N particles, and the particle at each position i is
\* the particle the call found at the index selected for i.
ResampleCopiesSelected ==
    (pc = "ready" /\ last.op \in ResampleOps) =>
        /\ Len(weights) = N
        /\ \A i \in 1..N : weights[i][1] = 1 /\ weights[i][2] = N
        /\ Len(particles) = N
        /\ Len(last.indexes) = N
        /\ \A i \in 1..N :
              /\ last.indexes[i] \in 0..(N - 1)
              /\ particles[i] = last.oldP[last.indexes[i] + 1]

\* C3 witness: residual_resample has returned a selection that moves a
\* particle to another position.
ResidualMovedAParticle ==
    /\ pc = "ready"
    /\ last.op = "residual"
    /\ \E i \in 1..N : last.indexes[i] # i - 1

\* the observations without a zero entry
NonZero(z) == \A e \in 1..Len(z) : z[e] # 0

\* C4: the factor update multiplies into the weights for landmark k is
\* computed from the predicted (range, bearing) and the k-th observation pair,
\* elements 2k and 2k+1 of the flattened observation: no other element of the
\* observation changes it.
UpdateFactorFromOwnPair ==
    (pc = "ready" /\ last.op = "update" /\ NonZero(last.z)) =>
        \A k \in 0..(Len(last.factors) - 1) :
            \A z2 \in Observations :
                (NonZero(z2) /\ z2[2 * k + 1] = last.z[2 * k + 1]
                             /\ z2[2 * k + 2] = last.z[2 * k + 2])
                    => Factors(last.oldP, z2, k) = last.factors[k + 1]

\* floor of a rational
RFloor(a) == a[1] \div a[2]

\* the number of the first k selected indexes that are particle i (0-based)
CopiesOf(indexes, k, i) == Cardinality({p \in 1..k : indexes[p] = i})

\* C5: residual_resample selects exactly N indexes, of which the
\* deterministic part holds exactly floor(N * weight_i) copies of each
\* particle i, and the random draws fill the N - k slots left, k being the
\* total of the copies (never more than N).
ResidualCopyCounts ==
    last.op = "residual" =>
        /\ pc = "ready"
        /\ Len(last.indexes) = N
        /\ last.k <= N
        /\ Len(last.us) = N - last.k
        /\ \A i \in 1..N :
              CopiesOf(last.indexes, last.k, i - 1) = RFloor(RMul(<<N, 1>>, last.oldW[i]))

\* C5 witness: residual_resample on three particles, one of weight 1/2, with
\* slots left to fill at random.
ResidualWithHalfWeight ==
    /\ pc = "ready"
    /\ last.op = "residual"
    /\ N = 3
    /\ last.k < N
    /\ \E i \in 1..N : last.oldW[i] = <<1, 2>>

\* C6: multinomial_resample maps each draw u to the smallest index whose
\* cumulative weight sum (the last forced to 1) strictly exceeds u, so that a
\* particle of weight 0 is never selected.
MultinomialStrictlyAbove ==
    (pc = "ready" /\ last.op = "multinomial") =>
        LET cumulative_sum == SetLast(CumSum(last.oldW), One)
        IN  \A i \in 1..Len(last.indexes) :
               LET j == last.indexes[i]
               IN  /\ RLt(last.us[i], cumulative_sum[j + 1])
                   /\ \A m \in 1..j : ~RLt(last.us[i], cumulative_sum[m])
                   /\ last.oldW[j + 1] # Zero

\* C7: stratified_resample and systematic_resample on a weight vector with
\* all its mass on one index j select j at every position, whatever the
\* offsets drawn, so that every particle is a copy of particle j.
AllMassSelectsOnlyJ ==
    \A j \in 1..Len(last.oldW) :
        (last.op \in WalkOps /\ last.oldW[j] = One) =>
            /\ pc = "ready"
            /\ Len(last.indexes) = N
            /\ \A i \in 1..N : last.indexes[i] = j - 1 /\ particles[i] = last.oldP[j]

\* C7 witness: stratified_resample on three particles with all the mass on
\* the last one.
StratifiedAllMassOnLast ==
    /\ pc = "ready"
    /\ last.op = "stratified"
    /\ N = 3
    /\ last.oldW[3] = One

\* C8: constructing a filter with a particle count N <= 0 ends in an error:
\* no filter with an empty particle set and weight vector exists.
NoEmptyFilter ==
    pc = "ready" => (N >= 1 /\ Len(particles) >= 1 /\ Len(weights) >= 1)

\* C9: the two-pointer loop of stratified_resample and systematic_resample
\* ends with all N slots assigned, never reads cumulative_sum past index
\* N - 1, and selects indexes that do not decrease.
WalkAssignsAllSlots ==
    last.op \in WalkOps =>
        /\ pc = "ready"
        /\ Len(last.indexes) = N
        /\ last.jmax <= N - 1
        /\ \A i \in 1..N : last.indexes[i] \in 0..(N - 1)
        /\ \A i \in 1..(N - 1) : last.indexes[i] <= last.indexes[i + 1]

\* C9 witness: systematic_resample on three particles whose pointer into the
\* cumulative sum has walked to the last entry.
SystematicReachedLastEntry ==
    /\ pc = "ready"
    /\ last.op = "systematic"
    /\ N = 3
    /\ last.jmax = N - 1
    /\ last.indexes[1] = 0

\* the part of N * weight_i that floor(N * weight_i) copies leave uncovered
Uncovered(w, i) ==
    RSub(RMul(<<Len(w), 1>>, w[i]), <<RFloor(RMul(<<Len(w), 1>>, w[i])), 1>>)

\* C10: whenever residual_resample has a slot left to fill (k < N), the
\* normalized residual vector is a probability distribution (no negative
\* entry, entries summing to 1, a cumulative sum that does not decrease) and
\* its entries are proportional to the uncovered parts of N * weight_i.
ResidualIsDistribution ==
    (last.op = "residual" /\ last.k < Len(last.oldW)) =>
        /\ ~last.divzero
        /\ \A i \in 1..Len(last.residual) : RLe(Zero, last.residual[i])
        /\ RSum(last.residual) = One
        /\ NonDecreasing(CumSum(last.residual))
        /\ \A i \in 1..Len(last.residual) :
              RMul(last.residual[i],
                   RSum([m \in 1..Len(last.oldW) |-> Uncovered(last.oldW, m)]))
                 = Uncovered(last.oldW, i)

====
